---- MODULE Spec2Model ----
(***************************************************************************)
(* Model of src/Testovoe.py: the Library catalog (a list of Book objects   *)
(* plus the next_id counter) and its JSON backing file.                    *)
(*                                                                         *)
(* Book objects are heap cells, Library.books is a list of references to   *)
(* them, so that add_book(book) with an object that is already in the list *)
(* is modelled as what Python does: the same object is appended again.     *)
(* Text is a sequence of one-character strings.  The two status values     *)
(* 'в наличии' and 'выдана' are written "available" and "checked-out".     *)
(***************************************************************************)
EXTENDS Integers, Sequences, FiniteSets, TLC

VARIABLES lib, heap, books, next_id, file, assigned, io_failures, last

vars == <<lib, heap, books, next_id, file, assigned, io_failures, last>>

(***************************************************************************)
(* Bounds of the model.                                                    *)
(***************************************************************************)
MaxLen == 2        \* most Book references held by Library.books
MaxId == 2         \* add_book is explored while next_id <= MaxId
MaxIoFailures == 1 \* most save_data calls in a row that meet an IOError

(***************************************************************************)
(* Input values.                                                           *)
(***************************************************************************)
AVAILABLE == "available"
CHECKED_OUT == "checked-out"
ValidStatuses == {AVAILABLE, CHECKED_OUT}
StatusInputs == ValidStatuses \cup {"lost"}

NoText == << >>
GoodTitle == <<"A", "b">>
GoodAuthor == <<"b">>

\* the texts passed as a year: '7', '07' and 'x'
YearTexts == {<<"7">>, <<"0", "7">>, <<"x">>}
NoneValue == [t |-> "none", n |-> 0, s |-> << >>]
IntValue(n) == [t |-> "int", n |-> n, s |-> << >>]
StrValue(s) == [t |-> "str", n |-> 0, s |-> s]
YearInputs == {NoneValue} \cup {IntValue(n) : n \in {0, 7}}
                \cup {StrValue(s) : s \in YearTexts}

\* the title, author, year triples add_book is called with: a good title and
\* author with every year, and an empty title or author with a good year
FieldInputs ==
    {<<GoodTitle, GoodAuthor, y>> : y \in YearInputs}
        \cup {<<NoText, GoodAuthor, IntValue(7)>>,
              <<GoodTitle, NoText, IntValue(7)>>}

\* the Book objects add_book is called with: a good title and author with
\* the years 0, 7 and '7', one Book with an empty title, one Book built
\* with status 'выдана', and one the caller tries to build with a status
\* that is neither
ObjectInputs ==
    {<<GoodTitle, GoodAuthor, y, AVAILABLE>> :
        y \in {IntValue(0), IntValue(7), StrValue(<<"7">>)}}
        \cup {<<NoText, GoodAuthor, IntValue(7), AVAILABLE>>,
              <<GoodTitle, GoodAuthor, IntValue(7), CHECKED_OUT>>,
              <<GoodTitle, GoodAuthor, IntValue(7), "lost">>}

\* the ids delete_book and change_status are called with
IdInputs == 1..MaxId

(***************************************************************************)
(* Python helpers: truthiness and int().                                   *)
(***************************************************************************)
\* bool(v) of a year argument: None, 0 and '' are false
Truthy(v) ==
    CASE v.t = "none" -> FALSE
      [] v.t = "int" -> v.n # 0
      [] v.t = "str" -> v.s # << >>

\* bool(s) of a text
TruthyText(s) == s # << >>

IsDigit(c) == c \in {"0", "7"}
DigitVal(c) == IF c = "7" THEN 7 ELSE 0

RECURSIVE DecimalValue(_)
DecimalValue(s) ==
    IF s = << >> THEN 0
    ELSE 10 * DecimalValue(SubSeq(s, 1, Len(s) - 1)) + DigitVal(s[Len(s)])

\* int(v) raises ValueError for a text that is not a decimal numeral
IntRaises(v) ==
    v.t = "str" /\ (v.s = << >> \/ \E i \in 1..Len(v.s) : ~IsDigit(v.s[i]))

\* int(v) for an int or a numeral
IntOf(v) == IF v.t = "int" THEN v.n ELSE DecimalValue(v.s)

\* isinstance(v, int)
IsInstanceInt(v) == v.t = "int"

(***************************************************************************)
(* Book and its dictionary form.                                           *)
(***************************************************************************)
\* Book.__init__ that takes any status
BookInitRaises_m(status) == FALSE

\* Book.__init__ raises InvalidStatusError for a status outside the two
BookInitRaises(status) == status \notin ValidStatuses

\* the object Book.__init__ builds
Book(title, author, year, status, id) ==
    [id |-> id, title |-> title, author |-> author, year |-> year,
     status |-> status]

\* to_dict that writes the default status
ToDict_m(b) ==
    [id |-> b.id, title |-> b.title, author |-> b.author, year |-> b.year,
     status |-> AVAILABLE]

\* Book.to_dict: the five attributes under the five keys
ToDict(b) ==
    [id |-> b.id, title |-> b.title, author |-> b.author, year |-> b.year,
     status |-> b.status]

\* [book.to_dict() for book in self.books]
Serialize(bs, h) == [i \in 1..Len(bs) |-> ToDict(h[bs[i]])]

(***************************************************************************)
(* The backing file.  kind "missing": no file; "garbage": text json.load   *)
(* rejects (also an empty or half-written file); "number": a JSON document *)
(* that is a number; "array": a JSON array, data holds its objects.        *)
(***************************************************************************)
MissingFile == [kind |-> "missing", data |-> << >>]
GarbageFile == [kind |-> "garbage", data |-> << >>]
NumberFile == [kind |-> "number", data |-> << >>]
ArrayFile(data) == [kind |-> "array", data |-> data]

\* Outcomes of save_data: the dump is written; open() raises IOError and the
\* file is untouched; open() truncated the file and a write raises IOError.
SaveOutcomes == {"ok", "open_fails", "write_fails"}

\* save_data that writes only over a file it could read back
SaveData_m(outcome, f, bs, h) ==
    CASE outcome = "ok" ->
            IF f.kind = "garbage" THEN f ELSE ArrayFile(Serialize(bs, h))
      [] outcome = "open_fails" -> f
      [] outcome = "write_fails" -> GarbageFile

\* save_data that has nothing to write for an empty list
SaveData_m2(outcome, f, bs, h) ==
    CASE outcome = "ok" -> IF bs = << >> THEN f ELSE ArrayFile(Serialize(bs, h))
      [] outcome = "open_fails" -> f
      [] outcome = "write_fails" -> GarbageFile

\* Library.save_data: the file after the call
SaveData(outcome, f, bs, h) ==
    CASE outcome = "ok" -> ArrayFile(Serialize(bs, h))
      [] outcome = "open_fails" -> f
      [] outcome = "write_fails" -> GarbageFile

\* Outcomes of reading an existing file in load_data
ReadOutcomes == {"ok", "ioerror"}

BookKeys == {"title", "author", "year", "status", "id"}

\* the exception Book(title=book_data['title'], ...) raises for one object
ItemRaises(d) ==
    IF ~(BookKeys \subseteq DOMAIN d) THEN "KeyError"
    ELSE IF BookInitRaises(d.status) THEN "InvalidStatusError"
    ELSE "none"

\* the exception that escapes load_data ("none": it returns)
LoadRaises(f, rd) ==
    IF f.kind = "missing" \/ rd = "ioerror" \/ f.kind = "garbage" THEN "none"
    ELSE IF f.kind = "number" THEN "TypeError"
    ELSE IF \E i \in 1..Len(f.data) : ItemRaises(f.data[i]) # "none"
         THEN ItemRaises(f.data[CHOOSE i \in 1..Len(f.data) :
                  /\ ItemRaises(f.data[i]) # "none"
                  /\ \A j \in 1..(i - 1) : ItemRaises(f.data[j]) = "none"])
    ELSE "none"

\* load_data that leaves the status to the default of Book.__init__
LoadBooks_m(f, rd) ==
    IF f.kind = "array" /\ rd = "ok"
    THEN [i \in 1..Len(f.data) |->
            Book(f.data[i].title, f.data[i].author, f.data[i].year,
                 AVAILABLE, f.data[i].id)]
    ELSE << >>

\* the Book objects load_data builds, in order, when it returns
LoadBooks(f, rd) ==
    IF f.kind = "array" /\ rd = "ok"
    THEN [i \in 1..Len(f.data) |->
            Book(f.data[i].title, f.data[i].author, f.data[i].year,
                 f.data[i].status, f.data[i].id)]
    ELSE << >>

\* what load_data meets when it opens and reads the file
Found(f, rd) ==
    IF f.kind = "missing" THEN "missing"
    ELSE IF rd = "ioerror" THEN "ioerror"
    ELSE f.kind

MaxOf(S) == CHOOSE m \in S : \A x \in S : x <= m

\* load_data that counts the books instead of taking the largest id
LoadNextId_m(f, rd, bks, new) ==
    IF f.kind = "array" /\ rd = "ok" THEN Len(bks) + 1 ELSE new

\* next_id when load_data returns; new is the value __init__ set before
LoadNextId(f, rd, bks, new) ==
    IF f.kind = "array" /\ rd = "ok"
    THEN IF bks # << >>
         THEN MaxOf({bks[i].id : i \in 1..Len(bks)}) + 1
         ELSE 1
    ELSE new

(***************************************************************************)
(* What the model remembers of the last call.                              *)
(***************************************************************************)
NoArgs == [form |-> "none", title |-> NoText, author |-> NoText,
           year |-> NoneValue, id |-> 0, status |-> "none"]
AddArgs(form, title, author, year, status) ==
    [form |-> form, title |-> title, author |-> author, year |-> year,
     id |-> 0, status |-> status]
IdArgs(id, status) ==
    [form |-> "none", title |-> NoText, author |-> NoText,
     year |-> NoneValue, id |-> id, status |-> status]

\* op: the call; args: its arguments; result: "ok" or the exception raised;
\* save: the outcome of the save_data it made ("none": it made none);
\* id: the id add_book assigned, for __init__ the next_id of the Library
\* the new one replaces; old: the status change_status replaced;
\* pre: what load_data met ("ioerror": reading the file raised IOError)
Last(op, args, result, save, id, old, pre) ==
    [op |-> op, args |-> args, result |-> result, save |-> save, id |-> id,
     old |-> old, pre |-> pre]

(***************************************************************************)
(* Initial state: the process has started, no Library exists yet, the      *)
(* data file is whatever was left on disk.                                 *)
(***************************************************************************)
StoredBook == Book(GoodTitle, GoodAuthor, 0, CHECKED_OUT, 2)
InitDicts ==
    { ToDict(StoredBook),
      ToDict(Book(GoodTitle, GoodAuthor, 7, "lost", 2)),
      [id |-> 2, title |-> GoodTitle, author |-> GoodAuthor, year |-> 7] }
InitFiles ==
    {MissingFile, GarbageFile, NumberFile, ArrayFile(<< >>)}
        \cup {ArrayFile(<<d>>) : d \in InitDicts}

NoHeap == [r \in {} |-> StoredBook]

Init ==
    /\ lib = "none"
    /\ heap = NoHeap
    /\ books = << >>
    /\ next_id = 1
    /\ file \in InitFiles
    /\ assigned = {}
    /\ io_failures = 0
    /\ last = Last("none", NoArgs, "none", "none", 0, "none", "none")

\* the model follows save_data into an IOError MaxIoFailures times in a row;
\* io_failures counts the failed calls since the last one that wrote
SaveAllowed(sv) == sv = "ok" \/ io_failures < MaxIoFailures
FailuresAfter(sv) == IF sv = "ok" THEN 0 ELSE io_failures + 1

(***************************************************************************)
(* Library.__init__: books = [], next_id = 1, load_data(), save_data().    *)
(* An exception escaping load_data leaves the process without a Library.   *)
(***************************************************************************)
Construct ==
    \E rd \in ReadOutcomes :
        LET raised == LoadRaises(file, rd)
            bks == LoadBooks(file, rd)
            h == [r \in 1..Len(bks) |-> bks[r]]
            bs == [i \in 1..Len(bks) |-> i]
        IN  IF raised # "none"
            THEN /\ lib' = "crashed"
                 /\ heap' = NoHeap
                 /\ books' = << >>
                 /\ next_id' = 1
                 /\ assigned' = {}
                 /\ last' = Last("init", NoArgs, raised, "none", 0, "none",
                                 Found(file, rd))
                 /\ UNCHANGED <<file, io_failures>>
            ELSE \E sv \in SaveOutcomes :
                 /\ SaveAllowed(sv)
                 /\ lib' = "up"
                 /\ heap' = h
                 /\ books' = bs
                 /\ next_id' = LoadNextId(file, rd, bks, 1)
                 /\ assigned' = {}
                 /\ file' = SaveData(sv, file, bs, h)
                 /\ io_failures' = FailuresAfter(sv)
                 /\ last' = Last("init", NoArgs, "ok", sv, next_id, "none",
                                 Found(file, rd))

(***************************************************************************)
(* Library.add_book.                                                       *)
(***************************************************************************)
\* line 105: not book_or_title or not author or not year
FieldsMissing(title, author, year) ==
    ~TruthyText(title) \/ ~TruthyText(author) \/ ~Truthy(year)

\* the exception add_book raises for title, author, year ("none": it adds)
AddFieldsRaises(title, author, year) ==
    IF FieldsMissing(title, author, year) THEN "InvalidInputError"
    ELSE IF IntRaises(year) THEN "InvalidInputError"
    ELSE "none"

\* the exception add_book raises for a Book object ("none": it adds)
AddObjectRaises(title, author, year) ==
    IF FieldsMissing(title, author, year) THEN "InvalidInputError"
    ELSE IF ~IsInstanceInt(year) THEN "InvalidInputError"
    ELSE "none"

\* add_book that forgets the increment
NextIdAfterAdd_m(n) == n

\* self.next_id += 1
NextIdAfterAdd(n) == n + 1

\* a reference no object of the heap has
NewRef(h) ==
    CHOOSE r \in 1..(Cardinality(DOMAIN h) + 1) :
        /\ r \notin DOMAIN h
        /\ \A q \in 1..(r - 1) : q \in DOMAIN h

\* the heap with object b at reference r
WithObject(h, r, b) == [q \in DOMAIN h \cup {r} |-> IF q = r THEN b ELSE h[q]]

\* book.id = self.next_id
AssignId(h, r, n) == [h EXCEPT ![r].id = n]

\* a call that takes an id before it validates
Raise_m(op, args, exc) ==
    /\ last' = Last(op, args, exc, "none", 0, "none", "none")
    /\ next_id' = next_id + 1
    /\ UNCHANGED <<lib, heap, books, file, assigned, io_failures>>

\* a call that raises before it changes anything
Raise(op, args, exc) ==
    /\ last' = Last(op, args, exc, "none", 0, "none", "none")
    /\ UNCHANGED <<lib, heap, books, next_id, file, assigned, io_failures>>

\* lines 113-117, for the object at reference r of heap h
AddTail(h, r, args) ==
    \E sv \in SaveOutcomes :
    /\ Len(books) < MaxLen
    /\ next_id <= MaxId
    /\ SaveAllowed(sv)
    /\ io_failures' = FailuresAfter(sv)
    /\ heap' = AssignId(h, r, next_id)
    /\ next_id' = NextIdAfterAdd(next_id)
    /\ books' = Append(books, r)
    /\ file' = SaveData(sv, file, books', heap')
    /\ assigned' = assigned \cup {next_id}
    /\ last' = Last("add", args, "ok", sv, next_id, "none", "none")
    /\ UNCHANGED lib

\* add_book(title, author, year)
AddBookFields ==
    /\ lib = "up"
    /\ \E inp \in FieldInputs :
        LET title == inp[1]
            author == inp[2]
            year == inp[3]
            args == AddArgs("fields", title, author, year, AVAILABLE)
            exc == AddFieldsRaises(title, author, year)
            r == NewRef(heap)
        IN  IF exc # "none"
            THEN Raise("add", args, exc)
            ELSE AddTail(WithObject(heap, r,
                            Book(title, author, IntOf(year), AVAILABLE, 0)),
                         r, args)

\* Book(title, author, year, status) and then add_book(book); when
\* Book.__init__ raises, add_book is not reached
AddBookObject ==
    /\ lib = "up"
    /\ \E inp \in ObjectInputs :
        LET title == inp[1]
            author == inp[2]
            year == inp[3]
            status == inp[4]
            args == AddArgs("object", title, author, year, status)
            exc == AddObjectRaises(title, author, year)
            r == NewRef(heap)
        IN  IF BookInitRaises(status)
            THEN Raise("Book", args, "InvalidStatusError")
            ELSE IF exc # "none"
            THEN Raise("add", args, exc)
            ELSE AddTail(WithObject(heap, r,
                            Book(title, author, IntOf(year), status, 0)),
                         r, args)

\* add_book(book) for a Book that is already in self.books
AddBookAgain ==
    /\ lib = "up"
    /\ \E r \in DOMAIN heap :
        LET b == heap[r]
            args == AddArgs("again", b.title, b.author, IntValue(b.year),
                            b.status)
            exc == AddObjectRaises(b.title, b.author, IntValue(b.year))
        IN  IF exc # "none"
            THEN Raise("add", args, exc)
            ELSE AddTail(heap, r, args)

(***************************************************************************)
(* Library.delete_book.                                                    *)
(***************************************************************************)
\* [book for book in self.books if book.id != id]
WithoutId(bs, h, id) == SelectSeq(bs, LAMBDA r : h[r].id # id)

\* The objects no longer in the list are dropped from the heap, and the
\* references of the others are renumbered 1, 2, ... in the order of their
\* first occurrence in the list (a reference is only an identity).
Refs(bs) == {bs[i] : i \in 1..Len(bs)}
RankOf(bs, r) ==
    LET first(q) == CHOOSE i \in 1..Len(bs) :
                        bs[i] = q /\ \A j \in 1..(i - 1) : bs[j] # q
    IN  Cardinality({q \in Refs(bs) : first(q) <= first(r)})
Renamed(bs) == [i \in 1..Len(bs) |-> RankOf(bs, bs[i])]
Collected(bs, h) ==
    [k \in 1..Cardinality(Refs(bs)) |->
        h[CHOOSE r \in Refs(bs) : RankOf(bs, r) = k]]

DeleteBook ==
    /\ lib = "up"
    /\ \E id \in IdInputs :
        LET kept == WithoutId(books, heap, id)
        IN  IF Len(kept) = Len(books)
            THEN /\ books' = kept
                 /\ last' = Last("delete", IdArgs(id, "none"),
                                 "BookNotFoundError", "none", 0, "none",
                                 "none")
                 /\ UNCHANGED <<lib, heap, next_id, file, assigned,
                                io_failures>>
            ELSE \E sv \in SaveOutcomes :
                 /\ SaveAllowed(sv)
                 /\ books' = Renamed(kept)
                 /\ heap' = Collected(kept, heap)
                 /\ file' = SaveData(sv, file, books', heap')
                 /\ io_failures' = FailuresAfter(sv)
                 /\ last' = Last("delete", IdArgs(id, "none"), "ok", sv, 0,
                                 "none", "none")
                 /\ UNCHANGED <<lib, next_id, assigned>>

(***************************************************************************)
(* Library.change_status.                                                  *)
(***************************************************************************)
\* the positions of the books with this id
Positions(bs, h, id) == {i \in 1..Len(bs) : h[bs[i]].id = id}

\* change_status that refuses to set the status the book already has
ChangeStatusRaises_m(bs, h, id, status) ==
    IF status \notin ValidStatuses THEN "InvalidStatusError"
    ELSE IF Positions(bs, h, id) = {} THEN "BookNotFoundError"
    ELSE IF \E i \in Positions(bs, h, id) : h[bs[i]].status = status
         THEN "InvalidStatusError"
    ELSE "none"

\* change_status that looks the id up before it checks the status
ChangeStatusRaises_m2(bs, h, id, status) ==
    IF Positions(bs, h, id) = {} THEN "BookNotFoundError"
    ELSE IF status \notin ValidStatuses THEN "InvalidStatusError"
    ELSE "none"

\* the exception change_status raises ("none": it changes the status)
ChangeStatusRaises(bs, h, id, status) ==
    IF status \notin ValidStatuses THEN "InvalidStatusError"
    ELSE IF Positions(bs, h, id) = {} THEN "BookNotFoundError"
    ELSE "none"

\* book.status = status for the first book with this id
SetStatus(bs, h, id, status) ==
    LET i == CHOOSE k \in Positions(bs, h, id) :
                 \A j \in Positions(bs, h, id) : k <= j
    IN  [h EXCEPT ![bs[i]].status = status]

\* the status of the first book with this id
StatusOf(bs, h, id) ==
    LET i == CHOOSE k \in Positions(bs, h, id) :
                 \A j \in Positions(bs, h, id) : k <= j
    IN  h[bs[i]].status

ChangeStatus ==
    /\ lib = "up"
    /\ \E id \in IdInputs, status \in StatusInputs :
        LET exc == ChangeStatusRaises(books, heap, id, status)
        IN  IF exc # "none"
            THEN Raise("change_status", IdArgs(id, status), exc)
            ELSE \E sv \in SaveOutcomes :
                 /\ SaveAllowed(sv)
                 /\ heap' = SetStatus(books, heap, id, status)
                 /\ file' = SaveData(sv, file, books, heap')
                 /\ io_failures' = FailuresAfter(sv)
                 /\ last' = Last("change_status", IdArgs(id, status), "ok",
                                 sv, 0, StatusOf(books, heap, id), "none")
                 /\ UNCHANGED <<lib, books, next_id, assigned>>

(***************************************************************************)
(* Library.search_book.                                                    *)
(***************************************************************************)
\* str.lower, one character
LowerChar(c) == IF c = "A" THEN "a" ELSE IF c = "B" THEN "b" ELSE c
Lower(s) == [i \in 1..Len(s) |-> LowerChar(s[i])]

\* a in b, for two texts
Contains(a, b) ==
    \E k \in 0..(Len(b) - Len(a)) : SubSeq(b, k + 1, k + Len(a)) = a

\* the references search_book(title=title) returns
SearchTitle(bs, h, title) ==
    SelectSeq(bs, LAMBDA r : Contains(Lower(title), Lower(h[r].title)))

\* The filters are None, a text or (of the wrong type for a title or author)
\* an int; the year filter is None, an int or (of the wrong type) a text.
SearchArgs(title, author, year) ==
    [form |-> "search", title |-> title, author |-> author, year |-> year,
     id |-> 0, status |-> "none"]

\* the filter triples search_book is called with
SearchInputs ==
    { <<NoneValue, NoneValue, NoneValue>>,
      <<StrValue(<<"a">>), NoneValue, NoneValue>>,
      <<StrValue(<<"b", "a">>), NoneValue, NoneValue>>,
      <<StrValue(<<"A", "B">>), NoneValue, IntValue(7)>>,
      <<NoneValue, StrValue(<<"B">>), NoneValue>>,
      <<NoneValue, StrValue(<<"B">>), IntValue(7)>>,
      <<NoneValue, NoneValue, IntValue(0)>>,
      <<IntValue(7), NoneValue, NoneValue>>,
      <<NoneValue, IntValue(7), NoneValue>>,
      <<NoneValue, NoneValue, StrValue(<<"7">>)>>,
      <<StrValue(<<"a">>), NoneValue, StrValue(<<"7">>)>> }

\* search_book that checks the title and the author but not the year
SearchRaises_m(title, author, year) ==
    IF title.t # "none" /\ title.t # "str" THEN "TypeError"
    ELSE IF author.t # "none" /\ author.t # "str" THEN "TypeError"
    ELSE "none"

\* the exception search_book raises ("none": it returns)
SearchRaises(title, author, year) ==
    IF title.t # "none" /\ title.t # "str" THEN "TypeError"
    ELSE IF author.t # "none" /\ author.t # "str" THEN "TypeError"
    ELSE IF year.t # "none" /\ year.t # "int" THEN "TypeError"
    ELSE "none"

\* a filter text matched against the field as it is written
TextMatches_m(f, text) == Contains(Lower(f), text)

\* title.lower() in book.title.lower()
TextMatches(f, text) == Contains(Lower(f), Lower(text))

\* the references search_book returns: one pass per filter that is not None
SearchBook(bs, h, title, author, year) ==
    LET r1 == IF title.t = "none" THEN bs
              ELSE SelectSeq(bs, LAMBDA r : TextMatches(title.s, h[r].title))
        r2 == IF author.t = "none" THEN r1
              ELSE SelectSeq(r1, LAMBDA r : TextMatches(author.s, h[r].author))
        r3 == IF year.t = "none" THEN r2
              ELSE SelectSeq(r2, LAMBDA r : year.t = "int" /\ h[r].year = year.n)
    IN  r3

\* search_book that narrows the list of the Library itself
BooksAfterSearch_m(bs, results) == results

\* self.books after search_book: results starts as self.books and only the
\* name results is rebound
BooksAfterSearch(bs, results) == bs

Search ==
    /\ lib = "up"
    /\ \E inp \in SearchInputs :
        LET exc == SearchRaises(inp[1], inp[2], inp[3])
            results == IF exc = "none"
                       THEN SearchBook(books, heap, inp[1], inp[2], inp[3])
                       ELSE books
        IN  /\ books' = BooksAfterSearch(books, results)
            /\ last' = Last("search", SearchArgs(inp[1], inp[2], inp[3]),
                            IF exc = "none" THEN "ok" ELSE exc, "none", 0,
                            "none", "none")
            /\ UNCHANGED <<lib, heap, next_id, file, assigned, io_failures>>

Next ==
    \/ Construct
    \/ AddBookFields
    \/ AddBookObject
    \/ AddBookAgain
    \/ DeleteBook
    \/ ChangeStatus
    \/ Search

Spec == Init /\ [][Next]_vars

(***************************************************************************)
(* search_book on its own: the Library holds any list of up to MaxLen      *)
(* books over two titles, two authors and two years, as add_book built it, *)
(* and only search_book is called.                                         *)
(***************************************************************************)
ShelfTitles == {<<"A", "b">>, <<"b">>}
ShelfAuthors == {<<"b">>, <<"B", "a">>}
ShelfYears == {0, 7}
ShelfBooks ==
    {<<t, a, y>> : t \in ShelfTitles, a \in ShelfAuthors, y \in ShelfYears}
Shelves == UNION {[1..n -> ShelfBooks] : n \in 0..MaxLen}

\* the heap after add_book was called for each triple of the shelf in turn
ShelfHeap(sh) ==
    [i \in 1..Len(sh) |-> Book(sh[i][1], sh[i][2], sh[i][3], AVAILABLE, i)]

SearchInit ==
    \E sh \in Shelves :
        /\ lib = "up"
        /\ heap = ShelfHeap(sh)
        /\ books = [i \in 1..Len(sh) |-> i]
        /\ next_id = Len(sh) + 1
        /\ file = ArrayFile(Serialize(books, heap))
        /\ assigned = 1..Len(sh)
        /\ io_failures = 0
        /\ last = Last("none", NoArgs, "none", "none", 0, "none", "none")

SearchNext == Search

SearchSpec == SearchInit /\ [][SearchNext]_vars

(***************************************************************************)
(* Vocabulary of the properties.                                           *)
(***************************************************************************)
\* the records of the catalog, in order
Records(bs, h) == [i \in 1..Len(bs) |-> h[bs[i]]]

\* the ids of the records of the catalog
Ids(bs, h) == {h[bs[i]].id : i \in 1..Len(bs)}

\* the file is a JSON array with one object per record, in order, with the
\* record's id, title, author, year and status
FileHolds(f, bs, h) ==
    /\ f.kind = "array"
    /\ Len(f.data) = Len(bs)
    /\ \A i \in 1..Len(bs) :
        /\ DOMAIN f.data[i] = BookKeys
        /\ f.data[i].id = h[bs[i]].id
        /\ f.data[i].title = h[bs[i]].title
        /\ f.data[i].author = h[bs[i]].author
        /\ f.data[i].year = h[bs[i]].year
        /\ f.data[i].status = h[bs[i]].status

Mutators == {"add", "delete", "change_status"}
SaveFailures == {"open_fails", "write_fails"}

\* non-empty title, non-empty author, an integer year
ValidTriple(a) ==
    a.title # NoText /\ a.author # NoText /\ a.year.t = "int"

\* s with the records of this id left out
RECURSIVE Without(_, _)
Without(s, id) ==
    IF s = << >> THEN << >>
    ELSE IF Head(s).id = id THEN Without(Tail(s), id)
    ELSE <<Head(s)>> \o Without(Tail(s), id)

(***************************************************************************)
(* C1: in every state a sequence of add (with fields or with a Book        *)
(* object), delete and changeStatus reaches, no two records of the catalog *)
(* have the same id.                                                       *)
(***************************************************************************)
C1_UniqueIds ==
    lib = "up" =>
        \A i, j \in 1..Len(books) :
            i # j => heap[books[i]].id # heap[books[j]].id

(***************************************************************************)
(* C2: add of a non-empty title, a non-empty author and any integer year   *)
(* succeeds, search(title=title) then returns a record with that title and *)
(* the new id, and the new id is greater than every id assigned earlier.   *)
(***************************************************************************)
C2_AddValidTriple ==
    (last.op = "add" /\ last.args.form = "fields" /\ ValidTriple(last.args))
        => /\ last.result = "ok"
           /\ \E i \in 1..Len(SearchTitle(books, heap, last.args.title)) :
                LET b == heap[SearchTitle(books, heap, last.args.title)[i]]
                IN  b.title = last.args.title /\ b.id = last.id
           /\ \A a \in assigned \ {last.id} : last.id > a

(***************************************************************************)
(* C3: in every state of a catalog next_id is greater than the id of every *)
(* record, and it is 1 right after a construction that loaded no record.   *)
(***************************************************************************)
C3_CounterAboveIds ==
    lib = "up" =>
        /\ \A i \in 1..Len(books) : next_id > heap[books[i]].id
        /\ (last.op = "init" /\ books = << >>) => next_id = 1

C3_Witness ==
    /\ lib = "up"
    /\ last.op = "delete" /\ last.result = "ok"
    /\ books # << >>
    /\ next_id > MaxOf(Ids(books, heap)) + 1

(***************************************************************************)
(* C4: after a successful add, delete or changeStatus whose save did not   *)
(* fail, the file holds the whole record sequence of the catalog: the same *)
(* ids, fields and statuses in the same order.                             *)
(***************************************************************************)
C4_FileFollowsMemory ==
    (last.op \in Mutators /\ last.result = "ok" /\ last.save = "ok")
        => FileHolds(file, books, heap)

C4_Witness ==
    /\ last.op = "change_status" /\ last.result = "ok" /\ last.save = "ok"
    /\ last.args.status = CHECKED_OUT
    /\ Len(books) = 2

(***************************************************************************)
(* C5: a successful delete(id) removes exactly one record, the one with    *)
(* that id, and leaves the other records and their order unchanged; a      *)
(* delete(id) repeated right after it raises BookNotFoundError.            *)
(***************************************************************************)
C5_DeleteExactlyOne ==
    [][ /\ (last'.op = "delete" /\ last'.result = "ok")
            => /\ Len(books') = Len(books) - 1
               /\ Records(books', heap')
                    = Without(Records(books, heap), last'.args.id)
        /\ (last.op = "delete" /\ last.result = "ok"
              /\ last'.op = "delete" /\ last'.args.id = last.args.id)
            => last'.result = "BookNotFoundError" ]_vars

(***************************************************************************)
(* C6: changeStatus(id, s) of an existing record with s one of the two     *)
(* statuses succeeds whatever the status of the record was, also when it   *)
(* was s already; with any other s it raises InvalidStatusError and the    *)
(* records are unchanged.                                                  *)
(***************************************************************************)
C6_ChangeStatusNoRestriction ==
    [][ last'.op = "change_status" =>
          LET id == last'.args.id
              st == last'.args.status
          IN  /\ (st \in ValidStatuses /\ id \in Ids(books, heap))
                    => /\ last'.result = "ok"
                       /\ \E i \in 1..Len(books') :
                            /\ heap'[books'[i]].id = id
                            /\ heap'[books'[i]].status = st
              /\ st \notin ValidStatuses
                    => /\ last'.result = "InvalidStatusError"
                       /\ Records(books', heap') = Records(books, heap) ]_vars

C6_Witness ==
    /\ last.op = "change_status" /\ last.result = "ok"
    /\ last.args.status = CHECKED_OUT
    /\ last.old = CHECKED_OUT

(***************************************************************************)
(* C7: a catalog constructed from the file a catalog has just saved holds  *)
(* the records of that catalog: same ids, titles, authors, years, statuses *)
(* and order.                                                              *)
(***************************************************************************)
C7_RoundTrip ==
    [][ (lib = "up" /\ last.save = "ok"
           /\ last'.op = "init" /\ last'.pre = "array")
          => /\ last'.result = "ok"
             /\ Records(books', heap') = Records(books, heap) ]_vars

C7_Witness ==
    /\ last.op = "init" /\ last.result = "ok" /\ last.pre = "array"
    /\ Len(books) = 2
    /\ heap[books[1]].status = CHECKED_OUT
    /\ heap[books[2]].status = AVAILABLE
    /\ heap[books[1]].id # heap[books[2]].id

(***************************************************************************)
(* C8: constructing the catalog over a file that is not valid JSON, or is  *)
(* JSON but not an array of records with the five fields and a status of   *)
(* the two, or over no file, gives an empty catalog and raises nothing.    *)
(***************************************************************************)
C8_BadFileGivesEmptyCatalog ==
    last.op = "init" =>
        /\ last.result = "ok"
        /\ lib = "up"
        /\ last.pre \in {"missing", "garbage", "number"} => books = << >>

(***************************************************************************)
(* C9: when the save of an add, delete or changeStatus meets an IOError    *)
(* the call does not raise and the catalog holds the change; and a save    *)
(* that succeeds, also after such a failure, leaves the file holding the   *)
(* whole catalog.                                                          *)
(***************************************************************************)
C9_SaveFailureKeepsMemory ==
    [][ /\ (last'.op \in Mutators /\ last'.save \in SaveFailures)
            => /\ last'.result = "ok"
               /\ last'.op = "add"
                    => /\ Len(books') = Len(books) + 1
                       /\ heap'[books'[Len(books')]].id = last'.id
                       /\ heap'[books'[Len(books')]].title = last'.args.title
               /\ last'.op = "delete"
                    => /\ last'.args.id \in Ids(books, heap)
                       /\ last'.args.id \notin Ids(books', heap')
               /\ last'.op = "change_status"
                    => \E i \in 1..Len(books') :
                            /\ heap'[books'[i]].id = last'.args.id
                            /\ heap'[books'[i]].status = last'.args.status
        /\ (~FileHolds(file, books, heap) /\ last'.save = "ok")
            => FileHolds(file', books', heap') ]_vars

C9_Witness ==
    /\ last.op = "add" /\ last.result = "ok" /\ last.save = "write_fails"
    /\ file = GarbageFile
    /\ Len(books) = 2

(***************************************************************************)
(* C10: an add that raises InvalidInputError, a delete or changeStatus     *)
(* that raises BookNotFoundError and a changeStatus that raises            *)
(* InvalidStatusError leave the records, their order, next_id and the file *)
(* unchanged.                                                              *)
(***************************************************************************)
C10_FailedCallChangesNothing ==
    [][ (last'.op \in Mutators /\ last'.result # "ok")
          => /\ last'.result \in {"InvalidInputError", "BookNotFoundError",
                                  "InvalidStatusError"}
             /\ UNCHANGED <<lib, heap, books, next_id, file>> ]_vars

C10_Witness ==
    /\ last.op = "delete" /\ last.result = "BookNotFoundError"
    /\ books # << >>
    /\ file # GarbageFile

(***************************************************************************)
(* C11: search returns exactly the records that satisfy every filter that  *)
(* is supplied, in catalog order: a title or author filter is satisfied    *)
(* when it is a substring of the field, letter case ignored, a year filter *)
(* when it equals the year; with no filter the result is the whole         *)
(* catalog.                                                                *)
(***************************************************************************)
TitleFilters ==
    {NoneValue} \cup {StrValue(s) : s \in {<< >>, <<"a">>, <<"b">>,
                                             <<"A", "B">>, <<"b", "a">>}}
AuthorFilters ==
    {NoneValue} \cup {StrValue(s) : s \in {<<"B">>, <<"a">>, <<"a", "b">>}}
YearFilters == {NoneValue, IntValue(0), IntValue(7)}

\* f occurs in text at some offset, comparing letters without their case
OccursIn(f, text) ==
    \E k \in 0..(Len(text) - Len(f)) :
        \A j \in 1..Len(f) : LowerChar(f[j]) = LowerChar(text[k + j])

Satisfies(b, title, author, year) ==
    /\ title.t = "none" \/ OccursIn(title.s, b.title)
    /\ author.t = "none" \/ OccursIn(author.s, b.author)
    /\ year.t = "none" \/ b.year = year.n

RECURSIVE Satisfying(_, _, _, _)
Satisfying(recs, title, author, year) ==
    IF recs = << >> THEN << >>
    ELSE IF Satisfies(Head(recs), title, author, year)
         THEN <<Head(recs)>> \o Satisfying(Tail(recs), title, author, year)
    ELSE Satisfying(Tail(recs), title, author, year)

C11_SearchExactMatches ==
    lib = "up" =>
        \A title \in TitleFilters, author \in AuthorFilters,
           year \in YearFilters :
            /\ SearchRaises(title, author, year) = "none"
            /\ Records(SearchBook(books, heap, title, author, year), heap)
                 = Satisfying(Records(books, heap), title, author, year)
            /\ (title.t = "none" /\ author.t = "none" /\ year.t = "none")
                 => SearchBook(books, heap, title, author, year) = books

C11_Witness ==
    /\ last.op = "search" /\ last.result = "ok"
    /\ last.args.title = StrValue(<<"A", "B">>)
    /\ last.args.year = IntValue(7)
    /\ Len(books) = 2
    /\ heap[books[1]].title = <<"b">>
    /\ LET found == SearchBook(books, heap, last.args.title,
                               last.args.author, last.args.year)
       IN  Len(found) = 1 /\ heap[found[1]].id = 2

(***************************************************************************)
(* C12: search fails with the InvalidInput error kind whenever a supplied  *)
(* filter has the wrong type (title or author not a text, year not an      *)
(* integer).                                                               *)
(***************************************************************************)
WrongTypeFilter(a) ==
    \/ a.title.t \notin {"none", "str"}
    \/ a.author.t \notin {"none", "str"}
    \/ a.year.t \notin {"none", "int"}

C14_SearchChangesNothing ==
    [][ last'.op = "search"
          => /\ UNCHANGED <<lib, heap, books, next_id, file, io_failures>>
             /\ last'.save = "none" ]_vars

C14_Witness ==
    /\ last.op = "search" /\ last.result = "ok"
    /\ last.args.title = StrValue(<<"b", "a">>)
    /\ Len(books) = 2
    /\ ~FileHolds(file, books, heap)

(***************************************************************************)
(* C13: in every state every record of the catalog has one of the two      *)
(* statuses; a newly added record has status available; and building a     *)
(* Book with any other status raises InvalidStatusError.                   *)
(***************************************************************************)
StatusesValid ==
    \A i \in 1..Len(books) : heap[books[i]].status \in ValidStatuses

BookRejectsOtherStatus ==
    /\ (last.op = "Book") => /\ last.args.status \notin ValidStatuses
                            /\ last.result = "InvalidStatusError"
    /\ (last.op = "add" /\ last.args.form = "object")
            => last.args.status \in ValidStatuses

C13_StatusInEnum ==
    lib = "up" =>
        /\ StatusesValid
        /\ (last.op = "add" /\ last.result = "ok")
                => heap[books[Len(books)]].status = AVAILABLE
        /\ BookRejectsOtherStatus

\* C13 as amended: a record added from title, author and year has status
\* available, a Book object passed to add keeps the status it has
C13_StatusInEnumAmended ==
    lib = "up" =>
        /\ StatusesValid
        /\ (last.op = "add" /\ last.result = "ok")
                => heap[books[Len(books)]].status
                     = IF last.args.form = "fields" THEN AVAILABLE
                       ELSE last.args.status
        /\ BookRejectsOtherStatus

C13_Witness ==
    /\ lib = "up"
    /\ last.op = "add" /\ last.result = "ok" /\ last.args.form = "object"
    /\ last.args.status = CHECKED_OUT
    /\ Len(books) = 2
    /\ heap[books[1]].status = AVAILABLE
    /\ heap[books[2]].status = CHECKED_OUT

(***************************************************************************)
(* C15: a successful add gives the new record the value next_id had before *)
(* the call, adds one to next_id, puts the new record last and leaves the  *)
(* records that were there before, and their order, unchanged.             *)
(***************************************************************************)
C15_AddAppends ==
    [][ (last'.op = "add" /\ last'.result = "ok")
          => /\ last'.id = next_id
             /\ next_id' = next_id + 1
             /\ Len(books') = Len(books) + 1
             /\ heap'[books'[Len(books')]].id = next_id
             /\ SubSeq(Records(books', heap'), 1, Len(books))
                  = Records(books, heap) ]_vars

(***************************************************************************)
(* C16: a successful changeStatus(id, s) sets the status of the record     *)
(* with that id to s and changes nothing else: no id, title, author or     *)
(* year, no status of another record, not the order or the length of the   *)
(* sequence, not next_id.                                                  *)
(***************************************************************************)
C16_ChangeStatusOnly ==
    [][ (last'.op = "change_status" /\ last'.result = "ok")
          => /\ Len(books') = Len(books)
             /\ next_id' = next_id
             /\ \A i \in 1..Len(books) :
                  LET b == heap[books[i]]
                      c == heap'[books'[i]]
                  IN  /\ c.id = b.id /\ c.title = b.title
                      /\ c.author = b.author /\ c.year = b.year
                      /\ c.status = IF b.id = last'.args.id
                                    THEN last'.args.status ELSE b.status ]_vars

(***************************************************************************)
(* C17: right after a construction next_id is one more than the largest id *)
(* of the loaded records, or 1 when none was loaded, whatever next_id the  *)
(* Library that wrote the file had reached.                                *)
(***************************************************************************)
C17_CounterAfterLoad ==
    (last.op = "init" /\ last.result = "ok")
        => next_id = IF books = << >> THEN 1
                     ELSE MaxOf(Ids(books, heap)) + 1

C17_Witness ==
    /\ last.op = "init" /\ last.result = "ok" /\ last.pre = "array"
    /\ books # << >>
    /\ next_id < last.id

(***************************************************************************)
(* C18: a construction loads and then saves: when that save does not fail  *)
(* the file holds the catalog right after construction; a missing file is  *)
(* created as an empty array and a file that could not be parsed is        *)
(* overwritten with an empty array.                                        *)
(***************************************************************************)
C18_ConstructSaves ==
    (last.op = "init" /\ last.result = "ok" /\ last.save = "ok")
        => /\ FileHolds(file, books, heap)
           /\ last.pre \in {"missing", "garbage"}
                => books = << >> /\ file = ArrayFile(<< >>)

C18_Witness ==
    /\ last.op = "init" /\ last.result = "ok" /\ last.save = "ok"
    /\ last.pre = "garbage"
    /\ file = ArrayFile(<< >>)

(***************************************************************************)
(* C19: changeStatus checks the status before it looks the id up: a status *)
(* outside the two raises InvalidStatusError whether or not a record has   *)
(* the id, and BookNotFoundError is raised only when the status is one of  *)
(* the two and no record has the id.                                       *)
(***************************************************************************)
C19_StatusCheckedFirst ==
    last.op = "change_status" =>
        /\ last.args.status \notin ValidStatuses
                => last.result = "InvalidStatusError"
        /\ last.result = "BookNotFoundError"
                <=> /\ last.args.status \in ValidStatuses
                    /\ last.args.id \notin Ids(books, heap)

C19_Witness ==
    /\ last.op = "change_status" /\ last.result = "InvalidStatusError"
    /\ books # << >>
    /\ last.args.id \notin Ids(books, heap)

====
